---- MODULE Spec2Model ----
(***************************************************************************)
(* midimon: a MIDI input monitor.  The model covers the message model of   *)
(* src/src/messages.rs (status, channel, data accessors, names) and the    *)
(* start-up, filter and render pipeline of src/src/main.rs (main, monitor, *)
(* on_receive and the four display functions).                             *)
(***************************************************************************)
EXTENDS Integers, Sequences, FiniteSets, TLC

VARIABLES
    overflow_checks, \* build profile: does u8 arithmetic overflow panic (debug) or wrap (release)
    pc,              \* position of main: "ignores", "filter", "monitor", "listening"; "test" in the unit harness
    ntok,            \* number of --ignore tokens consumed by the loop of main
    format,          \* main: let format
    ignore,          \* main: let mut ignore
    filter,          \* main: let filter
    recv,            \* monitor: the ReceiveArgs owned by each connection, by port index
    panicked,        \* ports whose callback has unwound with a panic
    calls,           \* the on_receive invocations so far, in the order they ran, with their exit point
    out,             \* standard output: the lines printed by the display functions
    msg,             \* unit harness: the MidiMessage under inspection
    acc,             \* unit harness: the last accessor called on msg and what it returned
    ignores,         \* main: the values of --ignore, in command-line order
    quiet,           \* main: the --quiet flag
    info             \* standard output: the start-up lines printed by monitor

vars == <<overflow_checks, pc, ntok, format, ignore, filter, recv, panicked, calls, out, msg, acc,
          ignores, quiet, info>>

----------------------------------------------------------------------------
(* Bounds of the model *)

\* most messages delivered in one run
MaxMsgs == 2
\* most --ignore tokens given on the command line
MaxIgnoreTokens == 1
\* largest --channel value tried by the full program specification
MaxChannelArg == 2
\* most --ignore tokens given on the command line when only start-up is followed
MaxStartupTokens == 2

----------------------------------------------------------------------------
(* u8 / u16 arithmetic *)

RECURSIVE BitAnd(_, _)
BitAnd(a, b) ==
    IF a = 0 \/ b = 0 THEN 0
    ELSE (a % 2) * (b % 2) + 2 * BitAnd(a \div 2, b \div 2)

RECURSIVE BitOr(_, _)
BitOr(a, b) ==
    IF a = 0 THEN b
    ELSE IF b = 0 THEN a
    ELSE (IF a % 2 = 1 \/ b % 2 = 1 THEN 1 ELSE 0) + 2 * BitOr(a \div 2, b \div 2)

\* x << n on u16
Shl16(x, n) == (x * (2 ^ n)) % 65536

\* u16 as i16
AsI16(x) == IF x >= 32768 THEN x - 65536 ELSE x

U8 == 0..255

\* Option<T>
None == <<>>
Some(x) == <<x>>
IsSome(o) == Len(o) = 1
unwrap(o) == o[1]

----------------------------------------------------------------------------
(* src/src/messages.rs *)

STATUS_MASK == 240
CHANNEL_MASK == 15

\* enum Status, #[repr(u8)]
StatusValue ==
    [ NoteOff |-> 128, NoteOn |-> 144, PolyKeyPressure |-> 160, ControlChange |-> 176,
      ProgramChange |-> 192, ChannelPressure |-> 208, PitchBend |-> 224,
      MtcQuarterFrame |-> 241, SongPositionPointer |-> 242, SongSelect |-> 243,
      TuneRequest |-> 246, EndOfExclusive |-> 247,
      TimingClock |-> 248, Start |-> 250, Continue |-> 251, Stop |-> 252,
      ActiveSensing |-> 254, SystemReset |-> 255,
      SystemExclusive |-> 240,
      Error |-> 0 ]

Status == DOMAIN StatusValue

\* Status::try_from (derive TryFromPrimitive): the variant with that discriminant, if any
try_from(v) ==
    IF \E k \in Status : StatusValue[k] = v
    THEN Some(CHOOSE k \in Status : StatusValue[k] = v)
    ELSE None

from_array(data) == [data |-> data]

\* the selector computed by status(): the whole byte for system messages, else the high nibble
StatusSelector_mut(m) ==
    LET status_byte == m.data[1]
    IN  BitAnd(status_byte, STATUS_MASK)

StatusSelector(m) ==
    LET status_byte == m.data[1]
    IN  IF status_byte >= 240 THEN status_byte ELSE BitAnd(status_byte, STATUS_MASK)

status(m) ==
    LET r == try_from(StatusSelector(m))
    IN  IF IsSome(r) THEN unwrap(r) ELSE "Error"

channel_mut(m) ==
    LET status_byte == m.data[1]
    IN  IF status_byte > 240 THEN None ELSE Some(BitAnd(status_byte, CHANNEL_MASK))

channel(m) ==
    LET status_byte == m.data[1]
    IN  IF status_byte >= 240 THEN None ELSE Some(BitAnd(status_byte, CHANNEL_MASK))

\* self.data[index] panics when index is out of bounds
IndexPanics(m, index) == index >= Len(m.data)

data(m, index) == m.data[index + 1]

data_as_u16_mut(m) == BitOr(m.data[2], Shl16(m.data[3], 8))

data_as_u16(m) == BitOr(m.data[2], Shl16(m.data[3], 7))

NoteNames == <<"C", "C#", "D", "D#", "E", "F", "F#", "G", "G#", "A", "A#", "B">>

note_name(m) ==
    IF status(m) \in {"NoteOff", "NoteOn", "PolyKeyPressure"}
    THEN LET octave == (data(m, 1) \div 12) - 2
             key == data(m, 1) % 12
         IN  Some(NoteNames[key + 1] \o ToString(octave))
    ELSE None

CcNames ==
    [n \in U8 |->
        CASE n = 0 -> "Bank Select MSB"
          [] n = 1 -> "Mod Wheel"
          [] n = 2 -> "Breath Control"
          [] n = 4 -> "Foot Pedal"
          [] n = 5 -> "Portamento Time"
          [] n = 6 -> "Data Entry"
          [] n = 7 -> "Volume"
          [] n = 8 -> "Balance"
          [] n = 10 -> "Pan"
          [] n = 11 -> "Expression"
          [] n = 32 -> "Bank Select LSB"
          [] n = 64 -> "Sustain Pedal"
          [] n = 65 -> "Portamento"
          [] n = 71 -> "Timbre"
          [] n = 72 -> "Release Time"
          [] n = 73 -> "Attack Time"
          [] n = 74 -> "Brightness"
          [] n = 91 -> "Reverb Level"
          [] n = 93 -> "Chorus Level"
          [] n = 120 -> "All Sound Off"
          [] n = 121 -> "All Controllers Off"
          [] n = 122 -> "Local Control"
          [] n = 123 -> "All Notes Off"
          [] n = 124 -> "Omni Mode Off"
          [] n = 125 -> "Omni Mode On"
          [] n = 126 -> "Mono Mode"
          [] n = 127 -> "Poly Mode"
          [] OTHER -> ""]

cc_name(m) ==
    IF status(m) = "ControlChange" THEN Some(CcNames[data(m, 1)]) ELSE None

\* impl Display for Status
StatusText(s) ==
    CASE s = "NoteOff" -> "Note Off"
      [] s = "NoteOn" -> "Note On"
      [] s = "PolyKeyPressure" -> "Poly Key Pressure"
      [] s = "ControlChange" -> "Control Change"
      [] s = "ProgramChange" -> "Program Change"
      [] s = "ChannelPressure" -> "Channel Pressure"
      [] s = "PitchBend" -> "Pitch Bend"
      [] s = "SystemExclusive" -> "System Exclusive"
      [] s = "MtcQuarterFrame" -> "MTC Quarter Frame"
      [] s = "SongPositionPointer" -> "Song Position Pointer"
      [] s = "SongSelect" -> "Song Select"
      [] s = "TuneRequest" -> "Tune Request"
      [] s = "EndOfExclusive" -> "End of Exclusive"
      [] s = "TimingClock" -> "Timing Clock"
      [] s = "Start" -> "Start"
      [] s = "Continue" -> "Continue"
      [] s = "Stop" -> "Stop"
      [] s = "ActiveSensing" -> "Active Sensing"
      [] s = "SystemReset" -> "System Reset"
      [] s = "Error" -> "Error or unknown"

----------------------------------------------------------------------------
(* Rust formatting, as the format strings of src/src/main.rs use it *)

RECURSIVE PadLeft(_, _, _)
PadLeft(s, w, c) == IF Len(s) >= w THEN s ELSE PadLeft(c \o s, w, c)

RECURSIVE PadRight(_, _)
PadRight(s, w) == IF Len(s) >= w THEN s ELSE PadRight(s \o " ", w)

\* {:>w} of an integer
FmtRight(n, w) == PadLeft(ToString(n), w, " ")

\* {:10.6} of timestamp as f64 / 1e6
FmtSeconds(timestamp) ==
    PadLeft(ToString(timestamp \div 1000000) \o "."
            \o PadLeft(ToString(timestamp % 1000000), 6, "0"), 10, " ")

RECURSIVE JoinFrom(_, _, _)
JoinFrom(parts, i, sep) ==
    IF i > Len(parts) THEN ""
    ELSE IF i = Len(parts) THEN parts[i]
    ELSE parts[i] \o sep \o JoinFrom(parts, i + 1, sep)

\* Vec<String>::join
Join(parts, sep) == JoinFrom(parts, 1, sep)

\* {:?} of a byte slice
FmtDebugBytes(bytes) ==
    "[" \o Join([i \in 1..Len(bytes) |-> ToString(bytes[i])], ", ") \o "]"

HexDigits == <<"0", "1", "2", "3", "4", "5", "6", "7", "8", "9", "A", "B", "C", "D", "E", "F">>

\* 0x{:02X}
FmtHexByte(b) == "0x" \o HexDigits[(b \div 16) + 1] \o HexDigits[(b % 16) + 1]

----------------------------------------------------------------------------
(* src/src/main.rs: the display functions.  Each returns what happened:   *)
(* the line it printed, or that it panicked before printing.              *)

Printed(line) == [panic |-> FALSE, line |-> line]
Panicked == [panic |-> TRUE, line |-> ""]

\* the data indices the match arm of display_default reads for a status
IndicesRead(st) ==
    CASE st \in {"NoteOff", "NoteOn", "PolyKeyPressure", "ControlChange"} -> {1, 2}
      [] st \in {"ProgramChange", "ChannelPressure"} -> {1}
      [] st = "PitchBend" -> {1, 2}
      [] st \in {"MtcQuarterFrame", "SongSelect"} -> {1}
      [] st = "SongPositionPointer" -> {1, 2}
      [] OTHER -> {}

\* the value display_default shows for a pitch bend message
PitchBendShown(m) == AsI16(data_as_u16(m)) - 8192

data_text(m) ==
    LET st == status(m)
    IN  CASE st \in {"NoteOff", "NoteOn"} ->
                "Ch:" \o FmtRight(unwrap(channel(m)) + 1, 2)
                \o "  Note:" \o FmtRight(data(m, 1), 3)
                \o "  Vel:" \o FmtRight(data(m, 2), 3)
                \o "    " \o unwrap(note_name(m))
          [] st = "PolyKeyPressure" ->
                "Ch:" \o FmtRight(unwrap(channel(m)) + 1, 2)
                \o "  Note:" \o FmtRight(data(m, 1), 3)
                \o "  Val:" \o FmtRight(data(m, 2), 3)
                \o "    " \o unwrap(note_name(m))
          [] st = "ControlChange" ->
                "Ch:" \o FmtRight(unwrap(channel(m)) + 1, 2)
                \o "  No:  " \o FmtRight(data(m, 1), 3)
                \o "  Val:" \o FmtRight(data(m, 2), 3)
                \o "    " \o unwrap(cc_name(m))
          [] st \in {"ProgramChange", "ChannelPressure"} ->
                "Ch:" \o FmtRight(unwrap(channel(m)) + 1, 2)
                \o "  Val:" \o FmtRight(data(m, 1), 3)
          [] st = "PitchBend" ->
                "Ch:" \o FmtRight(unwrap(channel(m)) + 1, 2)
                \o "  Val:" \o FmtRight(PitchBendShown(m), 5)
          [] st \in {"MtcQuarterFrame", "SongSelect"} -> FmtRight(data(m, 1), 3)
          [] st = "SongPositionPointer" ->
                FmtRight(data(m, 1), 3) \o "  " \o FmtRight(data(m, 2), 3)
          [] st \in {"TuneRequest", "TimingClock", "Start", "Continue", "Stop",
                     "ActiveSensing", "SystemReset"} -> ""
          [] OTHER -> FmtDebugBytes(m.data)

display_default(port_id, timestamp, message) ==
    LET m == from_array(message)
        status_text == StatusText(status(m))
    IN  IF \E i \in IndicesRead(status(m)) : IndexPanics(m, i)
        THEN Panicked
        ELSE Printed("  (" \o ToString(port_id) \o ")  " \o FmtSeconds(timestamp)
                     \o "  " \o PadRight(status_text, 21) \o "  " \o data_text(m))

display_raw(port_id, timestamp, message) ==
    Printed("  (" \o ToString(port_id) \o ")  " \o FmtSeconds(timestamp)
            \o "   " \o FmtDebugBytes(message))

display_min(message) ==
    Printed(Join([i \in 1..Len(message) |-> ToString(message[i])], ", "))

display_min_hex(message) ==
    Printed(Join([i \in 1..Len(message) |-> FmtHexByte(message[i])], ", "))

----------------------------------------------------------------------------
(* src/src/main.rs: configuration *)

\* enum DisplayFormat
DisplayFormat == {"Default", "Raw", "Min", "MinHex"}

\* the fields of struct MessageIgnore
IgnoreFlags ==
    {"note", "poly_pressure", "control_change", "program_change", "channel_pressure",
     "pitch_bend", "sysex", "mtc_frame", "song_pos_pointer", "song_select", "tune_request",
     "clock", "start", "continue_", "stop", "sensing", "reset"}

\* main: let mut ignore = MessageIgnore { every flag false }
NoIgnore == [f \in IgnoreFlags |-> FALSE]

\* the values the --ignore argument accepts
IgnoreTokens ==
    {"note", "polyat", "cc", "pc", "at", "pb", "sysex", "clock", "sensing",
     "realtime", "transport", "system"}

\* one iteration of the loop over the --ignore tokens
ApplyIgnore_mut(ig, i) ==
    CASE i = "note" -> [ig EXCEPT !.note = TRUE]
      [] i = "polyat" -> [ig EXCEPT !.poly_pressure = TRUE]
      [] i = "cc" -> [ig EXCEPT !.control_change = TRUE]
      [] i = "pc" -> [ig EXCEPT !.program_change = TRUE]
      [] i = "at" -> [ig EXCEPT !.channel_pressure = TRUE]
      [] i = "pb" -> [ig EXCEPT !.pitch_bend = TRUE]
      [] i = "sysex" -> [ig EXCEPT !.sysex = TRUE]
      [] i = "clock" -> [ig EXCEPT !.clock = TRUE]
      [] i = "sensing" -> [ig EXCEPT !.sensing = TRUE]
      [] i = "realtime" ->
            [ig EXCEPT !.clock = TRUE, !.start = TRUE, !.continue_ = TRUE,
                       !.stop = TRUE, !.sensing = TRUE, !.reset = TRUE]
      [] i = "transport" ->
            [ig EXCEPT !.clock = FALSE, !.start = TRUE, !.continue_ = TRUE, !.stop = TRUE]
      [] i = "system" ->
            [ig EXCEPT !.sysex = TRUE, !.mtc_frame = TRUE, !.song_pos_pointer = TRUE,
                       !.song_select = TRUE, !.tune_request = TRUE, !.clock = TRUE,
                       !.start = TRUE, !.continue_ = TRUE, !.stop = TRUE,
                       !.sensing = TRUE, !.reset = TRUE]
      [] OTHER -> ig

ApplyIgnore(ig, i) ==
    CASE i = "note" -> [ig EXCEPT !.note = TRUE]
      [] i = "polyat" -> [ig EXCEPT !.poly_pressure = TRUE]
      [] i = "cc" -> [ig EXCEPT !.control_change = TRUE]
      [] i = "pc" -> [ig EXCEPT !.program_change = TRUE]
      [] i = "at" -> [ig EXCEPT !.channel_pressure = TRUE]
      [] i = "pb" -> [ig EXCEPT !.pitch_bend = TRUE]
      [] i = "sysex" -> [ig EXCEPT !.sysex = TRUE]
      [] i = "clock" -> [ig EXCEPT !.clock = TRUE]
      [] i = "sensing" -> [ig EXCEPT !.sensing = TRUE]
      [] i = "realtime" ->
            [ig EXCEPT !.clock = TRUE, !.start = TRUE, !.continue_ = TRUE,
                       !.stop = TRUE, !.sensing = TRUE, !.reset = TRUE]
      [] i = "transport" ->
            [ig EXCEPT !.start = TRUE, !.continue_ = TRUE, !.stop = TRUE]
      [] i = "system" ->
            [ig EXCEPT !.sysex = TRUE, !.mtc_frame = TRUE, !.song_pos_pointer = TRUE,
                       !.song_select = TRUE, !.tune_request = TRUE, !.clock = TRUE,
                       !.start = TRUE, !.continue_ = TRUE, !.stop = TRUE,
                       !.sensing = TRUE, !.reset = TRUE]
      [] OTHER -> ig

\* the whole loop, over the tokens in command-line order
RECURSIVE ApplyIgnores(_, _)
ApplyIgnores(ig, tokens) ==
    IF tokens = <<>> THEN ig
    ELSE ApplyIgnores(ApplyIgnore(ig, Head(tokens)), Tail(tokens))

\* the token lists of at most n tokens
TokenLists(n) == UNION {[1..k -> IgnoreTokens] : k \in 0..n}

\* one token list of at most n tokens for each configuration such a list can build
DistinctTokenLists(n) ==
    {CHOOSE l \in TokenLists(n) : ApplyIgnores(NoIgnore, l) = ig :
        ig \in {ApplyIgnores(NoIgnore, l) : l \in TokenLists(n)}}

\* --channel: value_parser!(u8) accepts every u8; main wraps the value in Some unchanged
ChannelArg(c) == Some(c)

\* the input ports the system lists (midi_in.ports())
Ports == {0, 1}

\* monitor: one ReceiveArgs per connected port, copied from the MonitorArgs
Connections(port, fmt, ig, flt) ==
    [i \in {i \in Ports : IF IsSome(port) THEN unwrap(port) = i ELSE TRUE} |->
        [port_id |-> i, format |-> fmt, ignore |-> ig, filter |-> flt]]

\* the name the system reports for an input port (midi_in.port_name)
port_name(i) == "Input " \o ToString(i)

\* monitor: one "  (i) name" line per connected port, in the order of midi_in.ports()
PortLines(port) ==
    LET listed == [k \in 1..Cardinality(Ports) |-> k - 1]
        added == SelectSeq(listed, LAMBDA i : IF IsSome(port) THEN unwrap(port) = i ELSE TRUE)
    IN  [k \in 1..Len(added) |-> "  (" \o ToString(added[k]) \o ") " \o port_name(added[k])]

\* monitor: the flags tested while ignore_info is built, in that order, and the text each pushes
IgnoreInfoTexts ==
    << [flag |-> "note", text |-> "Note Off, Note On"],
       [flag |-> "poly_pressure", text |-> "Poly Key Pressure"],
       [flag |-> "control_change", text |-> "Control Change"],
       [flag |-> "program_change", text |-> "Program Change"],
       [flag |-> "pitch_bend", text |-> "Pitch Bend"],
       [flag |-> "sysex", text |-> "Sysex"],
       [flag |-> "mtc_frame", text |-> "MTC Quarter Frame"],
       [flag |-> "song_pos_pointer", text |-> "Song Pos Pointer"],
       [flag |-> "song_select", text |-> "Song Select"],
       [flag |-> "tune_request", text |-> "Tune Request"],
       [flag |-> "clock", text |-> "Clock"],
       [flag |-> "start", text |-> "Start"],
       [flag |-> "continue_", text |-> "Continue"],
       [flag |-> "stop", text |-> "Stop"],
       [flag |-> "sensing", text |-> "Active Sensing"],
       [flag |-> "reset", text |-> "Reset"] >>

\* monitor: let mut ignore_info, after the pushes
ignore_info(ig) ==
    LET pushed == SelectSeq(IgnoreInfoTexts, LAMBDA e : ig[e.flag])
    IN  [k \in 1..Len(pushed) |-> pushed[k].text]

\* monitor: the "Ignoring ..." line, printed unless ignore_info is empty
IgnoringLines(ig) ==
    IF ignore_info(ig) = <<>> THEN <<>>
    ELSE <<"Ignoring " \o Join(ignore_info(ig), ", ")>>

\* monitor: the "Using channel filter ..." line, printed when a channel is given
ChannelLines(flt) ==
    IF IsSome(flt.channel)
    THEN <<"Using channel filter " \o ToString(unwrap(flt.channel))>>
    ELSE <<>>

\* monitor: everything it prints when show_info is set
StartupInfo(port, ig, flt) ==
    <<"Active input ports:">> \o PortLines(port) \o IgnoringLines(ig) \o ChannelLines(flt)
        \o <<"Listening... Press Ctrl-C to exit.">>

----------------------------------------------------------------------------
(* src/src/main.rs: on_receive *)

\* the status on_receive computes from the leading byte
ReceiveStatus(message) ==
    IF message[1] >= 240 THEN message[1] ELSE BitAnd(message[1], 240)

\* the chain of early returns on the ignore flags
Suppressed_mut(ig, st) ==
    \/ ig.note /\ (st = StatusValue.NoteOn)
    \/ ig.poly_pressure /\ (st = StatusValue.PolyKeyPressure)
    \/ ig.control_change /\ (st = StatusValue.ControlChange)
    \/ ig.program_change /\ (st = StatusValue.ProgramChange)
    \/ ig.channel_pressure /\ (st = StatusValue.ChannelPressure)
    \/ ig.pitch_bend /\ (st = StatusValue.PitchBend)
    \/ ig.sysex /\ (st = StatusValue.SystemExclusive)
    \/ ig.mtc_frame /\ (st = StatusValue.MtcQuarterFrame)
    \/ ig.song_pos_pointer /\ (st = StatusValue.SongPositionPointer)
    \/ ig.song_select /\ (st = StatusValue.SongSelect)
    \/ ig.tune_request /\ (st = StatusValue.TuneRequest)
    \/ ig.clock /\ (st = StatusValue.TimingClock)
    \/ ig.start /\ (st = StatusValue.Start)
    \/ ig.continue_ /\ (st = StatusValue.Continue)
    \/ ig.stop /\ (st = StatusValue.Stop)
    \/ ig.sensing /\ (st = StatusValue.ActiveSensing)
    \/ ig.reset /\ (st = StatusValue.SystemReset)

Suppressed(ig, st) ==
    \/ ig.note /\ (st = StatusValue.NoteOff \/ st = StatusValue.NoteOn)
    \/ ig.poly_pressure /\ (st = StatusValue.PolyKeyPressure)
    \/ ig.control_change /\ (st = StatusValue.ControlChange)
    \/ ig.program_change /\ (st = StatusValue.ProgramChange)
    \/ ig.channel_pressure /\ (st = StatusValue.ChannelPressure)
    \/ ig.pitch_bend /\ (st = StatusValue.PitchBend)
    \/ ig.sysex /\ (st = StatusValue.SystemExclusive)
    \/ ig.mtc_frame /\ (st = StatusValue.MtcQuarterFrame)
    \/ ig.song_pos_pointer /\ (st = StatusValue.SongPositionPointer)
    \/ ig.song_select /\ (st = StatusValue.SongSelect)
    \/ ig.tune_request /\ (st = StatusValue.TuneRequest)
    \/ ig.clock /\ (st = StatusValue.TimingClock)
    \/ ig.start /\ (st = StatusValue.Start)
    \/ ig.continue_ /\ (st = StatusValue.Continue)
    \/ ig.stop /\ (st = StatusValue.Stop)
    \/ ig.sensing /\ (st = StatusValue.ActiveSensing)
    \/ ig.reset /\ (st = StatusValue.SystemReset)

\* is the channel comparison evaluated: && short-circuits on the leading byte
ChannelCompared(flt, message) ==
    IsSome(flt.channel) /\ message[1] <= StatusValue.SystemExclusive

\* channel - 1 on u8 overflows exactly when channel = 0
SubOverflows(c) == c - 1 < 0

\* channel - 1 when the overflow wraps
WrappingSub1(c) == (c - 1) % 256

\* message[0] & 0x0F != channel - 1
ChannelMismatch(flt, message) ==
    BitAnd(message[1], 15) # WrappingSub1(unwrap(flt.channel))

\* match args.format
Display(fmt, port_id, timestamp, message) ==
    CASE fmt = "Default" -> display_default(port_id, timestamp, message)
      [] fmt = "Raw" -> display_raw(port_id, timestamp, message)
      [] fmt = "Min" -> display_min(message)
      [] fmt = "MinHex" -> display_min_hex(message)

\* one call of on_receive: where it left (ret) and the line it printed, if any
Receive(timestamp, message, args, checks) ==
    IF Suppressed(args.ignore, ReceiveStatus(message))
    THEN [ret |-> "ignored", line |-> ""]
    ELSE IF ChannelCompared(args.filter, message) /\ SubOverflows(unwrap(args.filter.channel))
            /\ checks
    THEN [ret |-> "overflow_panic", line |-> ""]
    ELSE IF ChannelCompared(args.filter, message) /\ ChannelMismatch(args.filter, message)
    THEN [ret |-> "filtered", line |-> ""]
    ELSE LET d == Display(args.format, args.port_id, timestamp, message)
         IN  IF d.panic THEN [ret |-> "index_panic", line |-> ""]
             ELSE [ret |-> "displayed", line |-> d.line]

\* the ReceiveArgs after a call: on_receive holds &mut ReceiveArgs and assigns nothing through it
ArgsAfter_mut(args, r) ==
    IF r.ret = "filtered" THEN [args EXCEPT !.filter = [channel |-> None]] ELSE args

ArgsAfter(args, r) == args

\* standard output after a call: println! appends one line
Println(o, line) == Append(o, line)

----------------------------------------------------------------------------
(* The program *)

\* main after get_matches: the format is matched and ignore starts all false
Init ==
    /\ overflow_checks \in BOOLEAN
    /\ pc = "ignores"
    /\ ntok = 0
    /\ format \in DisplayFormat
    /\ ignore = NoIgnore
    /\ filter = [channel |-> None]
    /\ recv = <<>>
    /\ panicked = {}
    /\ calls = <<>>
    /\ out = <<>>
    /\ msg = from_array(<<0>>)
    /\ acc = [fn |-> "none"]
    /\ ignores \in DistinctTokenLists(MaxIgnoreTokens)
    /\ quiet = TRUE
    /\ info = <<>>

\* main: the loop body, for the next --ignore token
IgnoreArg(i) ==
    /\ pc = "ignores"
    /\ ntok < Len(ignores)
    /\ i = ignores[ntok + 1]
    /\ ignore' = ApplyIgnore(ignore, i)
    /\ ntok' = ntok + 1
    /\ UNCHANGED <<overflow_checks, pc, format, filter, recv, panicked, calls, out, msg, acc,
                 ignores, quiet, info>>

\* main: let filter, without --channel
NoChannelArg ==
    /\ pc = "ignores"
    /\ ntok = Len(ignores)
    /\ filter' = [channel |-> None]
    /\ pc' = "monitor"
    /\ UNCHANGED <<overflow_checks, ntok, format, ignore, recv, panicked, calls, out, msg, acc,
                 ignores, quiet, info>>

\* main: let filter, with --channel c
WithChannelArg(c) ==
    /\ pc = "ignores"
    /\ ntok = Len(ignores)
    /\ filter' = [channel |-> ChannelArg(c)]
    /\ pc' = "monitor"
    /\ UNCHANGED <<overflow_checks, ntok, format, ignore, recv, panicked, calls, out, msg, acc,
                 ignores, quiet, info>>

\* monitor: connect the selected ports, print the start-up lines unless quiet, then idle
\* in the sleep loop
monitor(port) ==
    /\ pc = "monitor"
    /\ recv' = Connections(port, format, ignore, filter)
    /\ info' = IF quiet THEN info ELSE StartupInfo(port, ignore, filter)
    /\ pc' = "listening"
    /\ UNCHANGED <<overflow_checks, ntok, format, ignore, filter, panicked, calls, out, msg, acc,
                 ignores, quiet>>

\* the callback of the connection of port p
on_receive(p, timestamp, message) ==
    /\ pc = "listening"
    /\ p \in DOMAIN recv
    /\ p \notin panicked
    /\ Len(calls) < MaxMsgs
    /\ LET r == Receive(timestamp, message, recv[p], overflow_checks)
       IN  /\ out' = IF r.ret = "displayed" THEN Println(out, r.line) ELSE out
           /\ panicked' = IF r.ret \in {"overflow_panic", "index_panic"}
                          THEN panicked \cup {p} ELSE panicked
           /\ calls' = Append(calls, [port |-> p, timestamp |-> timestamp,
                                      message |-> message, ret |-> r.ret])
           /\ recv' = [recv EXCEPT ![p] = ArgsAfter(recv[p], r)]
    /\ UNCHANGED <<overflow_checks, pc, ntok, format, ignore, filter, msg, acc, ignores, quiet, info>>

\* the messages the sources deliver in the full program: a Note On cut short, a complete
\* Note On on channel 2, a system exclusive message
Msgs == { <<144>>, <<145, 60, 100>>, <<240, 1, 247>> }

\* the timestamps the transport passes (microseconds)
Stamps == {1500000}

\* the --port values tried: none, or the second port
PortArgs == {None, Some(1)}

Next ==
    \/ \E i \in IgnoreTokens : IgnoreArg(i)
    \/ NoChannelArg
    \/ \E c \in 0..MaxChannelArg : WithChannelArg(c)
    \/ \E port \in PortArgs : monitor(port)
    \/ \E p \in Ports, timestamp \in Stamps, message \in Msgs : on_receive(p, timestamp, message)

Spec == Init /\ [][Next]_vars

----------------------------------------------------------------------------
(* Start-up alone: main and monitor from every command line of at most     *)
(* MaxStartupTokens --ignore tokens, with and without --quiet, up to the   *)
(* sleep loop; no message arrives.                                         *)

InitStartup ==
    /\ overflow_checks = FALSE
    /\ pc = "ignores"
    /\ ntok = 0
    /\ format = "Default"
    /\ ignore = NoIgnore
    /\ filter = [channel |-> None]
    /\ recv = <<>>
    /\ panicked = {}
    /\ calls = <<>>
    /\ out = <<>>
    /\ msg = from_array(<<0>>)
    /\ acc = [fn |-> "none"]
    /\ ignores \in TokenLists(MaxStartupTokens)
    /\ quiet \in BOOLEAN
    /\ info = <<>>

NextStartup ==
    \/ \E i \in IgnoreTokens : IgnoreArg(i)
    \/ NoChannelArg
    \/ \E c \in 0..MaxChannelArg : WithChannelArg(c)
    \/ \E port \in PortArgs : monitor(port)

SpecStartup == InitStartup /\ [][NextStartup]_vars

----------------------------------------------------------------------------
(* The first callback after start-up, from every configuration main can   *)
(* build out of at most MaxIgnoreTokens --ignore tokens and a --channel   *)
(* value, on a message with any leading byte.                             *)

\* the --channel values tried here: every MIDI channel
FilterChannels == 1..16

\* the formats tried here: the structured one and a byte dump
FilterFormats == {"Default", "MinHex"}

\* one complete message per leading byte, and the Volume control change
FilterMsgs == {<<b, 60, 100>> : b \in U8} \cup {<<176, 7, 64>>}

InitFilter ==
    /\ overflow_checks = FALSE
    /\ pc = "listening"
    /\ ignores \in DistinctTokenLists(MaxIgnoreTokens)
    /\ ntok = Len(ignores)
    /\ ignore = ApplyIgnores(NoIgnore, ignores)
    /\ format \in FilterFormats
    /\ filter \in {[channel |-> None]} \cup {[channel |-> ChannelArg(c)] : c \in FilterChannels}
    /\ recv = Connections(Some(0), format, ignore, filter)
    /\ panicked = {}
    /\ calls = <<>>
    /\ out = <<>>
    /\ msg = from_array(<<0>>)
    /\ acc = [fn |-> "none"]
    /\ quiet = TRUE
    /\ info = <<>>

NextFilter ==
    \E p \in Ports, timestamp \in Stamps, message \in FilterMsgs :
        Len(calls) = 0 /\ on_receive(p, timestamp, message)

SpecFilter == InitFilter /\ [][NextFilter]_vars

----------------------------------------------------------------------------
(* The accessors of MidiMessage and display_default, called on one message *)

\* the data bytes tried for pitch bend: every 7-bit value and two bytes with the top bit set
PitchData == (0..127) \cup {128, 255}

\* every leading byte alone, with one and with two data bytes; pitch bend on two channels
\* with every pair of data bytes, and on every channel with the extreme and centre bytes
MsgInputs ==
    {<<b>> : b \in U8} \cup {<<b, 60, 100>> : b \in U8}
    \cup {<<b, 60>> : b \in U8}
    \cup {<<b, d1, d2>> : b \in {224, 233}, d1 \in PitchData, d2 \in PitchData}
    \cup {<<b, d1, d2>> : b \in 224..239, d1 \in {0, 64, 127}, d2 \in {0, 64, 127}}

InitMsg ==
    /\ overflow_checks = FALSE
    /\ pc = "test"
    /\ ntok = 0
    /\ format = "Default"
    /\ ignore = NoIgnore
    /\ filter = [channel |-> None]
    /\ recv = <<>>
    /\ panicked = {}
    /\ calls = <<>>
    /\ out = <<>>
    /\ msg \in {from_array(d) : d \in MsgInputs}
    /\ acc = [fn |-> "none"]
    /\ ignores = <<>>
    /\ quiet = TRUE
    /\ info = <<>>

HarnessUnchanged ==
    UNCHANGED <<overflow_checks, pc, ntok, format, ignore, filter, recv, panicked, calls, msg,
                ignores, quiet, info>>

CallStatus ==
    /\ pc = "test" /\ acc.fn = "none"
    /\ acc' = [fn |-> "status", panic |-> FALSE, val |-> status(msg)]
    /\ out' = out
    /\ HarnessUnchanged

CallChannel ==
    /\ pc = "test" /\ acc.fn = "none"
    /\ acc' = [fn |-> "channel", panic |-> FALSE, val |-> channel(msg)]
    /\ out' = out
    /\ HarnessUnchanged

CallDataAsU16 ==
    /\ pc = "test" /\ acc.fn = "none"
    /\ acc' = IF IndexPanics(msg, 1) \/ IndexPanics(msg, 2)
              THEN [fn |-> "data_as_u16", panic |-> TRUE, val |-> 0]
              ELSE [fn |-> "data_as_u16", panic |-> FALSE, val |-> data_as_u16(msg)]
    /\ out' = out
    /\ HarnessUnchanged

CallDisplayDefault ==
    /\ pc = "test" /\ acc.fn = "none"
    /\ LET d == display_default(0, 0, msg.data)
       IN  /\ acc' = [fn |-> "display_default", panic |-> d.panic, val |-> d.line]
           /\ out' = IF d.panic THEN out ELSE Println(out, d.line)
    /\ HarnessUnchanged

NextMsg == CallStatus \/ CallChannel \/ CallDataAsU16 \/ CallDisplayDefault

SpecMsg == InitMsg /\ [][NextMsg]_vars

----------------------------------------------------------------------------
(* Properties *)

\* the kinds of enum Status, by the groups its comments give
ChannelKinds ==
    {"NoteOff", "NoteOn", "PolyKeyPressure", "ControlChange", "ProgramChange",
     "ChannelPressure", "PitchBend"}
SystemCommonKinds ==
    {"MtcQuarterFrame", "SongPositionPointer", "SongSelect", "TuneRequest", "EndOfExclusive"}
SystemRealtimeKinds ==
    {"TimingClock", "Start", "Continue", "Stop", "ActiveSensing", "SystemReset"}
SystemKinds == SystemCommonKinds \cup SystemRealtimeKinds \cup {"SystemExclusive"}

\* the kind of the message of a call, as MidiMessage::status classifies it
KindOf(c) == status(from_array(c.message))

\* the ignore flag that covers a kind, if any
CoveringFlags(kind) ==
    CASE kind \in {"NoteOff", "NoteOn"} -> {"note"}
      [] kind = "PolyKeyPressure" -> {"poly_pressure"}
      [] kind = "ControlChange" -> {"control_change"}
      [] kind = "ProgramChange" -> {"program_change"}
      [] kind = "ChannelPressure" -> {"channel_pressure"}
      [] kind = "PitchBend" -> {"pitch_bend"}
      [] kind = "SystemExclusive" -> {"sysex"}
      [] kind = "MtcQuarterFrame" -> {"mtc_frame"}
      [] kind = "SongPositionPointer" -> {"song_pos_pointer"}
      [] kind = "SongSelect" -> {"song_select"}
      [] kind = "TuneRequest" -> {"tune_request"}
      [] kind = "TimingClock" -> {"clock"}
      [] kind = "Start" -> {"start"}
      [] kind = "Continue" -> {"continue_"}
      [] kind = "Stop" -> {"stop"}
      [] kind = "ActiveSensing" -> {"sensing"}
      [] kind = "SystemReset" -> {"reset"}
      [] OTHER -> {}

CallIds == 1..Len(calls)

\* the configuration with only the note flag set
OnlyNote == ApplyIgnore(NoIgnore, "note")

\* C1: a call leaves on_receive through one of the ignore returns exactly when the flag
\* covering the kind of its message is set in the ReceiveArgs of its port, whatever the
\* low nibble of the leading byte and the channel filter; EndOfExclusive and unrecognized
\* messages never leave there.  With only the note flag set and no channel filter,
\* [0x90, 60, 100] is dropped and [0xB0, 7, 64] is printed.
C1_KindSuppression ==
    \A i \in CallIds :
        LET c == calls[i]
            args == recv[c.port]
        IN  /\ (c.ret = "ignored") <=> (\E f \in CoveringFlags(KindOf(c)) : args.ignore[f])
            /\ KindOf(c) \in {"EndOfExclusive", "Error"} => c.ret # "ignored"
            /\ (args.ignore = OnlyNote /\ c.message = <<144, 60, 100>>)
                    => (c.ret = "ignored" /\ out = <<>>)
            /\ (args.ignore = OnlyNote /\ args.filter.channel = None
                    /\ c.message = <<176, 7, 64>>)
                    => (c.ret = "displayed" /\ Len(out) = 1)

\* a Note Off on channel 8 is dropped by the note flag although the channel filter is 3
C1_Witness ==
    /\ Len(calls) = 1
    /\ calls[1].message = <<135, 60, 100>>
    /\ calls[1].ret = "ignored"
    /\ recv[calls[1].port].ignore = OnlyNote
    /\ recv[calls[1].port].filter.channel = Some(3)
    /\ out = <<>>

\* Lemma (first callback, complete messages): among the calls not dropped by an ignore
\* flag, with a channel filter c in 1..16 a message with leading byte b <= 0xF0 gets past
\* the channel comparison exactly when b mod 16 = c - 1, and every other message gets past.
ChannelStepLemma ==
    \A i \in CallIds :
        LET c == calls[i]
            flt == recv[c.port].filter
            b == c.message[1]
        IN  c.ret # "ignored" =>
                IF IsSome(flt.channel) /\ unwrap(flt.channel) \in 1..16 /\ b <= 240
                THEN (c.ret # "filtered") <=> (b % 16 = unwrap(flt.channel) - 1)
                ELSE c.ret # "filtered"

\* C2: a message not dropped by kind suppression is displayed, with a channel filter c in
\* 1..16 and a leading byte b <= 0xF0, if and only if b mod 16 = c - 1; it is always
\* displayed if b > 0xF0, and always displayed with no channel filter.
C2_DisplayedIffChannelMatches ==
    \A i \in CallIds :
        LET c == calls[i]
            flt == recv[c.port].filter
            b == c.message[1]
        IN  c.ret # "ignored" =>
                /\ (IsSome(flt.channel) /\ unwrap(flt.channel) \in 1..16 /\ b <= 240)
                        => ((c.ret = "displayed") <=> (b % 16 = unwrap(flt.channel) - 1))
                /\ (IsSome(flt.channel) /\ unwrap(flt.channel) \in 1..16 /\ b > 240)
                        => c.ret = "displayed"
                /\ flt.channel = None => c.ret = "displayed"

\* does a call get past both filter steps
Shown(ret) == ret \notin {"ignored", "filtered"}

\* C3: for a message whose leading byte is >= 0xF0, the display decision under a channel
\* filter in 1..16 is the decision the same call makes with no channel filter.
C3_FilterSkipsChannelless ==
    \A i \in CallIds :
        LET c == calls[i]
            args == recv[c.port]
            unfiltered == [args EXCEPT !.filter = [channel |-> None]]
        IN  (c.message[1] >= 240 /\ IsSome(args.filter.channel)
                /\ unwrap(args.filter.channel) \in 1..16)
            => (Shown(c.ret)
                    <=> Shown(Receive(c.timestamp, c.message, unfiltered, overflow_checks).ret))

\* the 19 status values that name a kind
DefinedStatusValues ==
    {128, 144, 160, 176, 192, 208, 224, 240, 241, 242, 243, 246, 247, 248, 250, 251, 252,
     254, 255}

\* C4: for every leading byte b, status() returns one Status: with the selector b when
\* b >= 0xF0 and b with its low nibble cleared otherwise, the result is the kind whose value
\* is the selector, and it is Error exactly when the selector is none of the 19 defined
\* values, that is when b < 0x80 or b is one of 0xF4, 0xF5, 0xF9, 0xFD.
C4_StatusTotal ==
    acc.fn = "status" =>
        LET b == msg.data[1]
            selector == IF b >= 240 THEN b ELSE b - (b % 16)
        IN  /\ ~acc.panic
            /\ acc.val \in Status
            /\ acc.val # "Error" => StatusValue[acc.val] = selector
            /\ (acc.val = "Error") <=> (selector \notin DefinedStatusValues)
            /\ (acc.val = "Error") <=> (b < 128 \/ b \in {244, 245, 249, 253})

\* status() of the reserved byte 0xF4 is Error
C4_Witness ==
    /\ acc.fn = "status"
    /\ msg.data = <<244>>
    /\ acc.val = "Error"

\* C5 as claimed: channel() is None exactly when status() is a system-common,
\* system-realtime or system-exclusive kind, and it is present, with a value in 0..15,
\* only for the seven channel kinds.
C5_ChannelNoneIffSystemKind ==
    acc.fn = "channel" =>
        /\ (acc.val = None) <=> (status(msg) \in SystemKinds)
        /\ IsSome(acc.val) => (status(msg) \in ChannelKinds /\ unwrap(acc.val) \in 0..15)

\* C5 amended: channel() is None exactly when the leading byte b is >= 0xF0.  For every
\* message whose status() is not Error, channel() is None exactly when status() is a
\* system kind, and for the seven channel kinds it is Some(b mod 16).  When status() is
\* Error, channel() is None for the reserved bytes 0xF4, 0xF5, 0xF9, 0xFD and Some(b mod 16)
\* for b < 0x80.  A present channel is always in 0..15.
C5_ChannelNoneIffSystemByte ==
    acc.fn = "channel" =>
        LET b == msg.data[1]
        IN  /\ ~acc.panic
            /\ (acc.val = None) <=> (b >= 240)
            /\ status(msg) # "Error" => ((acc.val = None) <=> (status(msg) \in SystemKinds))
            /\ status(msg) \in ChannelKinds => acc.val = Some(b % 16)
            /\ status(msg) = "Error" => ((acc.val = None) <=> (b \in {244, 245, 249, 253}))
            /\ (status(msg) = "Error" /\ b < 128) => acc.val = Some(b % 16)
            /\ IsSome(acc.val) => unwrap(acc.val) \in 0..15

\* channel() of the reserved byte 0xF4 is None although status() is Error
C5_Witness ==
    /\ acc.fn = "channel"
    /\ msg.data = <<244>>
    /\ acc.val = None
    /\ status(msg) = "Error"

\* is the channel filter of a call one the command line is meant to give
ValidFilter(flt) == flt.channel = None \/ unwrap(flt.channel) \in 1..16

\* C6: with a valid channel filter, every on_receive call on a non-empty message returns
\* without failure, having printed exactly one line if the message passed the filter and
\* nothing if it was dropped.
C6_ReceiveNeverFails ==
    /\ \A i \in CallIds :
            ValidFilter(recv[calls[i].port].filter)
                => calls[i].ret \in {"ignored", "filtered", "displayed"}
    /\ (\A p \in DOMAIN recv : ValidFilter(recv[p].filter))
            => Len(out) = Cardinality({i \in CallIds : Shown(calls[i].ret)})

\* C7: every channel filter that reaches on_receive is in 1..16, so channel - 1 never
\* underflows.
C7_FilterChannelInRange ==
    /\ \A p \in DOMAIN recv : ValidFilter(recv[p].filter)
    /\ \A i \in CallIds :
            ~(ChannelCompared(recv[calls[i].port].filter, calls[i].message)
              /\ SubOverflows(unwrap(recv[calls[i].port].filter.channel)))

\* the line each call that got past the filter is due, in the order the calls ran
RECURSIVE LinesDue(_)
LinesDue(cs) ==
    IF cs = <<>> THEN <<>>
    ELSE LET c == Head(cs)
             due == IF Shown(c.ret)
                    THEN <<Display(recv[c.port].format, c.port, c.timestamp, c.message).line>>
                    ELSE <<>>
         IN  due \o LinesDue(Tail(cs))

\* C8: the lines on standard output are, in the order of the calls, exactly the lines of
\* the messages that passed the filter: none reordered, duplicated or lost, and none for
\* a suppressed message.  (Callbacks run one at a time here, so the order of the calls
\* extends the delivery order of every source.)
C8_OutputIsPassingMessages ==
    /\ Len(out) = Cardinality({i \in CallIds : Shown(calls[i].ret)})
    /\ out = LinesDue(calls)

\* the ReceiveArgs monitor builds for port p from the variables of main
StartArgs(p) == [port_id |-> p, format |-> format, ignore |-> ignore, filter |-> filter]

\* the lines of the calls that printed, each computed afresh from the start-up arguments
RECURSIVE LinesFromStart(_)
LinesFromStart(cs) ==
    IF cs = <<>> THEN <<>>
    ELSE LET c == Head(cs)
             r == Receive(c.timestamp, c.message, StartArgs(c.port), overflow_checks)
         IN  (IF r.ret = "displayed" THEN <<r.line>> ELSE <<>>) \o LinesFromStart(Tail(cs))

\* C9: while listening, the ReceiveArgs of every connection are the values set at start-up,
\* after any calls on any ports; every call left on_receive where a first call from the
\* start-up arguments with the same port, timestamp and message leaves it, and the output
\* is the lines such calls print.
C9_ArgsUnchanged ==
    pc = "listening" =>
        /\ \A p \in DOMAIN recv : recv[p] = StartArgs(p)
        /\ \A i \in CallIds :
                calls[i].ret = Receive(calls[i].timestamp, calls[i].message,
                                       StartArgs(calls[i].port), overflow_checks).ret
        /\ out = LinesFromStart(calls)

\* two calls on different ports, the first filtered out by channel and the second printed
C9_Witness ==
    /\ Len(calls) = 2
    /\ calls[1].port # calls[2].port
    /\ calls[1].ret = "filtered"
    /\ calls[2].ret = "displayed"
    /\ IsSome(filter.channel)
    /\ Len(out) = 1

\* C10: for a pitch bend message with data bytes d1, d2 in 0..127, data_as_u16() is
\* d1 + 128 * d2, in 0..16383; the value the default format shows is that minus 8192, in
\* -8192..8191, and the conversion to i16 and the subtraction stay in range.
\* [0xE0, 0x00, 0x40] is shown as 0.
C10_PitchBendValue ==
    (status(msg) = "PitchBend" /\ Len(msg.data) = 3
        /\ msg.data[2] \in 0..127 /\ msg.data[3] \in 0..127) =>
        LET d1 == msg.data[2]
            d2 == msg.data[3]
            composite == d1 + 128 * d2
        IN  /\ acc.fn = "data_as_u16" =>
                (~acc.panic /\ acc.val = composite /\ acc.val \in 0..16383)
            /\ (acc.fn = "data_as_u16" /\ d1 = 0 /\ d2 = 0) => acc.val = 0
            /\ (acc.fn = "data_as_u16" /\ d1 = 127 /\ d2 = 127) => acc.val = 16383
            /\ data_as_u16(msg) < 32768
            /\ PitchBendShown(msg) = composite - 8192
            /\ PitchBendShown(msg) \in (-8192)..8191
            /\ acc.fn = "display_default" =>
                /\ ~acc.panic
                /\ acc.val = "  (0)    0.000000  Pitch Bend             Ch:"
                             \o FmtRight((msg.data[1] % 16) + 1, 2)
                             \o "  Val:" \o FmtRight(composite - 8192, 5)
                /\ out = <<acc.val>>
            /\ (acc.fn = "display_default" /\ msg.data = <<224, 0, 64>>) =>
                acc.val = "  (0)    0.000000  Pitch Bend             Ch: 1  Val:    0"

\* the centre position [0xE0, 0x00, 0x40] is printed with the value 0
C10_Witness ==
    /\ acc.fn = "display_default"
    /\ msg.data = <<224, 0, 64>>
    /\ out = <<"  (0)    0.000000  Pitch Bend             Ch: 1  Val:    0">>

----------------------------------------------------------------------------
(* The ignore configuration and its start-up summary *)

\* the flags of a configuration that are set
FlagsSet(ig) == {f \in IgnoreFlags : ig[f]}

\* the six realtime flags
RealtimeFlags == {"clock", "start", "continue_", "stop", "sensing", "reset"}

\* the flags each --ignore token stands for
Expansion(token) ==
    CASE token = "realtime" -> RealtimeFlags
      [] token = "transport" -> {"start", "continue_", "stop"}
      [] token = "system" ->
            {"sysex", "mtc_frame", "song_pos_pointer", "song_select", "tune_request"}
                \cup RealtimeFlags
      [] token = "polyat" -> {"poly_pressure"}
      [] token = "cc" -> {"control_change"}
      [] token = "pc" -> {"program_change"}
      [] token = "at" -> {"channel_pressure"}
      [] token = "pb" -> {"pitch_bend"}
      [] OTHER -> {token}

\* a token list back to front
Reversed(tokens) == [k \in 1..Len(tokens) |-> tokens[Len(tokens) + 1 - k]]

\* C11: at every point of the loop over the --ignore tokens the flags that are set are the
\* union of the expansions of the tokens consumed so far, starting from none (so no flag is
\* ever cleared); the loop ends only after the last token; the finished configuration is the
\* one every connection receives; and the same tokens back to front, or given twice over,
\* build the same configuration
C11_IgnoreIsUnion ==
    /\ FlagsSet(ignore) = UNION {Expansion(ignores[k]) : k \in 1..ntok}
    /\ pc \in {"monitor", "listening"} =>
          /\ ntok = Len(ignores)
          /\ ignore = ApplyIgnores(NoIgnore, ignores)
          /\ ignore = ApplyIgnores(NoIgnore, Reversed(ignores))
          /\ ignore = ApplyIgnores(NoIgnore, ignores \o ignores)
    /\ pc = "listening" => \A p \in DOMAIN recv : recv[p].ignore = ignore

\* C11 witness: --ignore clock --ignore transport has reached the sleep loop with exactly
\* clock, start, continue and stop set, in main and in every connection
C11_Witness ==
    /\ pc = "listening"
    /\ ignores = <<"clock", "transport">>
    /\ FlagsSet(ignore) = {"clock", "start", "continue_", "stop"}
    /\ \A p \in DOMAIN recv : FlagsSet(recv[p].ignore) = FlagsSet(ignore)

\* the kinds one entry of the summary stands for, and the text that names them; Channel
\* Pressure is listed with its name from Display for Status
SummaryKinds ==
    << [kinds |-> {"NoteOff", "NoteOn"}, text |-> "Note Off, Note On"],
       [kinds |-> {"PolyKeyPressure"}, text |-> "Poly Key Pressure"],
       [kinds |-> {"ControlChange"}, text |-> "Control Change"],
       [kinds |-> {"ProgramChange"}, text |-> "Program Change"],
       [kinds |-> {"ChannelPressure"}, text |-> "Channel Pressure"],
       [kinds |-> {"PitchBend"}, text |-> "Pitch Bend"],
       [kinds |-> {"SystemExclusive"}, text |-> "Sysex"],
       [kinds |-> {"MtcQuarterFrame"}, text |-> "MTC Quarter Frame"],
       [kinds |-> {"SongPositionPointer"}, text |-> "Song Pos Pointer"],
       [kinds |-> {"SongSelect"}, text |-> "Song Select"],
       [kinds |-> {"TuneRequest"}, text |-> "Tune Request"],
       [kinds |-> {"TimingClock"}, text |-> "Clock"],
       [kinds |-> {"Start"}, text |-> "Start"],
       [kinds |-> {"Continue"}, text |-> "Continue"],
       [kinds |-> {"Stop"}, text |-> "Stop"],
       [kinds |-> {"ActiveSensing"}, text |-> "Active Sensing"],
       [kinds |-> {"SystemReset"}, text |-> "Reset"] >>

\* the names of the kinds on_receive will suppress under a configuration
NamesOfSuppressed(ig) ==
    LET hit == SelectSeq(SummaryKinds,
                         LAMBDA e : \A k \in e.kinds : Suppressed(ig, StatusValue[k]))
    IN  [k \in 1..Len(hit) |-> hit[k].text]

\* the start-up lines between the port list and the channel and "Listening..." lines
SummaryPrinted ==
    SubSeq(info, 2 + Cardinality(DOMAIN recv),
           Len(info) - 1 - (IF IsSome(filter.channel) THEN 1 ELSE 0))

\* the kinds covered by a set flag are the kinds on_receive will suppress
FlagsAgreeWithFilter ==
    \A p \in DOMAIN recv : \A kind \in DOMAIN StatusValue :
        Suppressed(recv[p].ignore, StatusValue[kind])
            <=> (\E f \in CoveringFlags(kind) : ignore[f])

\* C12: once a run that is not quiet is listening, the summary names exactly the kinds whose
\* ignore flag is set, which are the kinds on_receive will suppress, and there is no
\* "Ignoring" line exactly when no flag is set
C12_SummaryAgreesWithFilter ==
    (pc = "listening" /\ ~quiet) =>
        /\ FlagsAgreeWithFilter
        /\ SummaryPrinted = IF NamesOfSuppressed(ignore) = <<>> THEN <<>>
                            ELSE <<"Ignoring " \o Join(NamesOfSuppressed(ignore), ", ")>>
        /\ (SummaryPrinted = <<>>) <=> (FlagsSet(ignore) = {})

\* the summary does agree with the filter in every run that leaves channel_pressure unset
SummaryLemma ==
    (pc = "listening" /\ ~quiet /\ ~ignore.channel_pressure) =>
        /\ FlagsAgreeWithFilter
        /\ SummaryPrinted = IF NamesOfSuppressed(ignore) = <<>> THEN <<>>
                            ELSE <<"Ignoring " \o Join(NamesOfSuppressed(ignore), ", ")>>
        /\ (SummaryPrinted = <<>>) <=> (FlagsSet(ignore) = {})

\* --ignore at alone: Channel Pressure is suppressed and nothing is printed about it
SummaryOmitsChannelPressure ==
    /\ pc = "listening" /\ ~quiet
    /\ ignores = <<"at">>
    /\ \A p \in DOMAIN recv : Suppressed(recv[p].ignore, StatusValue.ChannelPressure)
    /\ SummaryPrinted = <<>>

====
